---- MODULE Spec2Model ----
(***************************************************************************)
(* Point-cloud colorization (bklosk/photogrammetry).                       *)
(*                                                                         *)
(* Spec      : one pipeline invocation.  Either                            *)
(*             PointCloudColorizer.process_files with the self-recursive   *)
(*             colorize_point_cloud (archive/process_point_cloud_original) *)
(*             or main() of scripts/process_point_cloud.py.                *)
(* SpecRetry : one run of one retry loop: the point-cloud download loop of *)
(*             _fetch_point_cloud_data, the geocoding loop of              *)
(*             process_point_cloud_background, or the size loop of         *)
(*             export_image / download_corrected_orthophoto.               *)
(*             SpecRetryFair adds that every loop step ends.               *)
(* SpecPixel : the pixel mapper and the color sampler on a short sequence  *)
(*             of points, in the archive and in the scripts variant.       *)
(* SpecSave  : save_colorized_point_cloud on a short cloud with a mask, in *)
(*             the archive and in the scripts variant.                     *)
(* SpecTransform : transform_point_cloud_to_ortho_crs of the archive, one  *)
(*             batch per step, and transform_coordinates of the scripts.   *)
(* SpecCrs   : the source CRS of the point cloud, from the caller, the     *)
(*             header, the coordinate ranges or a default.                 *)
(* SpecSize  : the pixel-size check of colorize_point_cloud.               *)
(* SpecJob   : one job of the API: process_point_cloud_background in its   *)
(*             worker thread next to a download_file request.              *)
(***************************************************************************)
EXTENDS Integers, Sequences, FiniteSets, TLC

(***************************************************************************)
(* Bounds of the model.                                                    *)
(***************************************************************************)
\* Deepest nested colorize_point_cloud invocation below the first one.  The
\* code has no depth limit of its own; past this depth the recursive call
\* is taken to fail, as it does at the interpreter's recursion limit.
MaxDepth == 2
\* Largest number of points of the cloud at one location.
MaxCount == 10
\* Largest number of points given to the pixel mapper.
MaxPts == 2
\* Largest number of points of a cloud that is saved.
MaxSavePts == 3
\* Largest number of points given to the coordinate transform.
MaxN == 3
\* Largest batch size of the coordinate transform.
MaxBatch == 2
\* Largest width and height of a raster in the pixel-size check.
MaxDim == 2

(***************************************************************************)
(* Program constants.                                                      *)
(***************************************************************************)
\* coverage_threshold = 0.10, as a percentage.
CoverageThresholdPct == 10

VARIABLES
    entry,      \* "process_files" (archive) or "main" (scripts)
    cloud,      \* transformed point cloud: location -> number of points there
    pc,         \* position of the entry function
    frames,     \* colorize_point_cloud invocations, outermost first (kept
                \* after they end, for what each one did)
    cur,        \* index in frames of the running invocation, 0 when none
    requests,   \* calls of download_corrected_orthophoto so far
    open,       \* raster datasets currently open: 1 the one given to the
                \* entry function, d + 1 the replacement opened by frame d
    saved,      \* what save_colorized_point_cloud wrote, or NotSaved
    exitval     \* how the entry function ended

pipeVars == <<entry, cloud, pc, frames, cur, requests, open, saved, exitval>>

\* The retry loops (SpecRetry).
VARIABLES
    fAttempt,   \* _fetch_point_cloud_data: loop variable attempt
    fDelay,     \* _fetch_point_cloud_data: retry_delay, seconds
    fSt,        \* "loop", "returned" or "raised"
    fLog,       \* download attempts and time.sleep calls, in order
    gAttempt,   \* process_point_cloud_background: loop variable attempt
    gSt,        \* "loop", "geocoded" (break) or "returned" (job failed)
    jobStatus,  \* jobs[job_id].status
    gLog,       \* geocode attempts and time.sleep calls, in order
    xFn,        \* "export_image" or "download_corrected_orthophoto"
    xReq,       \* the requested size, <<width, height>>
    xIdx,       \* loop variable attempt of the size loop
    xSt,        \* "loop", "returned" or "raised"
    xLog        \* requests sent: size and what came back, in order

retryVars == <<fAttempt, fDelay, fSt, fLog, gAttempt, gSt, jobStatus, gLog,
               xFn, xReq, xIdx, xSt, xLog>>

\* The pixel mapper and the color sampler (SpecPixel).
VARIABLES
    pVariant,   \* "colorize_point_cloud" (archive) or "script" (scripts)
    pBuild,     \* how the installed numpy converts to int32
    pRaster,    \* the raster sampled
    pPts,       \* the transformed points, a sequence
    pSt,        \* "start", "mapped", "sampled" or "raised"
    pCols,      \* pixel_cols as stored
    pRows,      \* pixel_rows as stored
    pMask,      \* valid_mask
    pReads,     \* (row, col) pairs read from the raster bands
    pColors     \* colors, one (r, g, b) per point

pixelVars == <<pVariant, pBuild, pRaster, pPts, pSt, pCols, pRows, pMask,
               pReads, pColors>>

\* save_colorized_point_cloud (SpecSave).
VARIABLES
    sVariant,   \* "archive" or "script"
    sIn,        \* las_data: header and points
    sMask,      \* valid_mask
    sColors,    \* colors, one (r, g, b) per input point
    sOut,       \* the file written: header and points, or NoFile
    sSt         \* "start", "saved" or "raised"

saveVars == <<sVariant, sIn, sMask, sColors, sOut, sSt>>

\* The coordinate transform (SpecTransform).
VARIABLES
    tVariant,   \* "archive" or "script"
    tIn,        \* the input points (x, y), a sequence
    tB,         \* batch_size
    tCustom,    \* whether the script was given a custom_transform_func
    tI,         \* loop variable i of the batch loop
    tBuf,       \* transformed_x, transformed_y as filled so far
    tWrites,    \* the slices [i, end_idx) written so far, in order
    tSt,        \* "start", "loop", "returned" or "raised"
    tCause,     \* the exception pyproj raised, "none" if it raised none
    tRet        \* what the caller gets: kind of result and the points

transformVars ==
    <<tVariant, tIn, tB, tCustom, tI, tBuf, tWrites, tSt, tCause, tRet>>

\* The resolution of the point cloud's CRS (SpecCrs).
VARIABLES
    cVariant,   \* "main" (archive command line), "call" (archive method
                \* called with a source_crs argument) or "script"
    cOverride,  \* the source CRS the caller supplies, "none" if none
    cEmbedded,  \* the CRS of the header, "none" if it has none
    cRange,     \* x_min, x_max, y_min, y_max of the coordinates
    cSt,        \* "start", "resolved", "transforming" or "raised"
    cCrs        \* source_crs as resolved, "none" before

crsVars == <<cVariant, cOverride, cEmbedded, cRange, cSt, cCrs>>

\* The pixel-size check of colorize_point_cloud (SpecSize).
VARIABLES
    zRaster,    \* affine coefficients a, b, d, e and width, height
    zSt,        \* "start", "checked" or "mapped"
    zIssues,    \* transform_issues
    zUsed       \* the transform given to rowcol: "declared" or "derived"

sizeVars == <<zRaster, zSt, zIssues, zUsed>>

\* One job of the API: the background task and a download request
\* (SpecJob).
VARIABLES
    jStatus,    \* jobs[job_id].status
    jOutput,    \* whether jobs[job_id].output_file is set
    jLock,      \* holder of jobs_lock: "none", "task" or "request"
    bPc,        \* position of process_point_cloud_background
    bAttempt,   \* attempt of the geocoding loop
    bUpdate,    \* the keys update_job_status still has to set, in order
    bTemp,      \* temp_dir: "none", "created", "removed" or "left"
    bHandler,   \* file_handler: "none", "added" or "closed"
    rPc,        \* position of download_file
    rSeen       \* what download_file has read: status and output_file

jobVars == <<jStatus, jOutput, jLock, bPc, bAttempt, bUpdate, bTemp,
             bHandler, rPc, rSeen>>

(***************************************************************************)
(* Inputs: the transformed point cloud and the rasters.                    *)
(***************************************************************************)
\* Locations (x, y) in the raster's CRS at which the cloud may have points.
Locs == {<<1, 1>>, <<4, 1>>, <<4, 4>>}

Counts == {0, 1, MaxCount - 1, MaxCount}

Total(c) == c[<<1, 1>>] + c[<<4, 1>>] + c[<<4, 4>>]

\* load_point_cloud takes np.min of the coordinates: an empty cloud never
\* reaches colorization.
Clouds == {c \in [Locs -> Counts] : Total(c) >= 1}

Raster(l, b, w, h, r, n, crs) ==
    [left |-> l, bottom |-> b, width |-> w, height |-> h, res |-> r,
     count |-> n, hasCrs |-> crs]

\* The rasters a file or the imagery service may hold: one around <<1, 1>>,
\* one around <<4, 4>>, one over every location (single band), one between
\* the locations, a two-band one and one without CRS.
Rasters ==
    { Raster(0, 0, 2, 2, 1, 3, TRUE),
      Raster(3, 3, 2, 2, 1, 3, TRUE),
      Raster(0, 0, 3, 3, 2, 1, TRUE),
      Raster(2, 2, 1, 1, 1, 3, TRUE),
      Raster(0, 0, 2, 2, 1, 2, TRUE),
      Raster(0, 0, 3, 3, 2, 3, FALSE) }

\* ortho_dataset.bounds: derived from the transform and the dimensions.
BoundsRight(r) == r.left + r.width * r.res
BoundsTop(r) == r.bottom + r.height * r.res

(***************************************************************************)
(* Pixel mapping and coverage.                                             *)
(***************************************************************************)
\* rasterio.transform.rowcol with the default op=math.floor.
PixelCol(r, x) == (x - r.left) \div r.res
PixelRow(r, y) == (BoundsTop(r) - y) \div r.res

ValidPixelLoose(col, row, w, h) ==
    col >= 0 /\ col <= w /\ row >= 0 /\ row <= h

\* valid_mask of one point.
ValidPixel(col, row, w, h) ==
    col >= 0 /\ col < w /\ row >= 0 /\ row < h

ValidAt(l, r) ==
    ValidPixel(PixelCol(r, l[1]), PixelRow(r, l[2]), r.width, r.height)

\* num_valid = np.sum(valid_mask)
NumValid(c, r) ==
    LET n(l) == IF ValidAt(l, r) THEN c[l] ELSE 0
    IN  n(<<1, 1>>) + n(<<4, 1>>) + n(<<4, 4>>)

Occupied(c) == {l \in Locs : c[l] > 0}
MinOf(S) == CHOOSE m \in S : \A k \in S : m <= k
MaxOf(S) == CHOOSE m \in S : \A k \in S : m >= k
PcXMin(c) == MinOf({l[1] : l \in Occupied(c)})
PcXMax(c) == MaxOf({l[1] : l \in Occupied(c)})
PcYMin(c) == MinOf({l[2] : l \in Occupied(c)})
PcYMax(c) == MaxOf({l[2] : l \in Occupied(c)})

OverlapX(c, r) == ~(PcXMax(c) < r.left \/ PcXMin(c) > BoundsRight(r))
OverlapY(c, r) == ~(PcYMax(c) < r.bottom \/ PcYMin(c) > BoundsTop(r))

NeedsCorrectionInclusive(numValid, totalPoints) ==
    numValid = 0 \/ numValid * 100 <= CoverageThresholdPct * totalPoints

\* if num_valid == 0 or current_coverage < coverage_threshold
NeedsCorrection(numValid, totalPoints) ==
    numValid = 0 \/ numValid * 100 < CoverageThresholdPct * totalPoints

FailureOutcomeAlwaysRaise(numValid) == "raise"

FailureOutcomeAlwaysProceed(numValid) == "proceed"

\* The except clause around the download and the recursive call: raise
\* only when no point was valid, else go on with the raster given.
FailureOutcome(numValid) == IF numValid = 0 THEN "raise" ELSE "proceed"

\* if ortho_dataset.count >= 3 ... elif ortho_dataset.count == 1 ... else raise
BandsSupported(n) == n >= 3 \/ n = 1

(***************************************************************************)
(* Invocation records.                                                     *)
(***************************************************************************)
NoOut == [kind |-> "none", src |-> 0, nvalid |-> 0, err |-> "none"]
Value(src, n) == [kind |-> "value", src |-> src, nvalid |-> n, err |-> "none"]
Error(e) == [kind |-> "error", src |-> 0, nvalid |-> 0, err |-> e]

NotSaved == [written |-> FALSE, src |-> 0, nvalid |-> 0]

\* A colorize_point_cloud invocation that has just been called with raster r.
NewFrame(r) ==
    [raster |-> r, st |-> "enter", valid |-> 0, total |-> 0,
     ovx |-> TRUE, ovy |-> TRUE, corr |-> FALSE, dl |-> "none",
     nested |-> NoOut, out |-> NoOut]

Running(st) == cur >= 1 /\ cur <= Len(frames) /\ frames[cur].st = st

(***************************************************************************)
(* PointCloudColorizer.process_files and colorize_point_cloud (archive).   *)
(***************************************************************************)
PipeInit ==
    /\ entry \in {"process_files", "main"}
    /\ cloud \in Clouds
    /\ pc = "start"
    /\ frames = <<>>
    /\ cur = 0
    /\ requests = 0
    /\ open = {}
    /\ saved = NotSaved
    /\ exitval = NoOut

\* load_point_cloud, then load_orthophoto (rasterio.open): either raises
\* before anything is open, else the raster stays open for the invocation.
LoadFiles ==
    /\ entry = "process_files" /\ pc = "start"
    /\ \/ /\ pc' = "failed"
          /\ exitval' = Error("LoadFailed")
          /\ UNCHANGED <<frames, cur, open>>
       \/ \E r \in Rasters :
             /\ pc' = "colorize"
             /\ frames' = <<NewFrame(r)>>
             /\ cur' = 1
             /\ open' = {1}
             /\ UNCHANGED exitval
    /\ UNCHANGED <<entry, cloud, requests, saved>>
    /\ UNCHANGED <<retryVars, pixelVars, saveVars, transformVars,
                    crsVars, sizeVars, jobVars>>

\* colorize_point_cloud up to the coverage test: the CRS check, the
\* transform, the overlap flags, the pixel mapping and the valid mask.
ColorizeEnter ==
    /\ entry = "process_files" /\ Running("enter")
    /\ LET r == frames[cur].raster
           v == NumValid(cloud, r)
           t == Total(cloud)
       IN  frames' = [frames EXCEPT ![cur] =
               IF ~r.hasCrs
               THEN [@ EXCEPT !.st = "raised", !.out = Error("NoCrs")]
               ELSE [@ EXCEPT !.valid = v, !.total = t,
                              !.ovx = OverlapX(cloud, r),
                              !.ovy = OverlapY(cloud, r),
                              !.corr = NeedsCorrection(v, t),
                              !.st = IF NeedsCorrection(v, t)
                                     THEN "correct" ELSE "sample"]]
    /\ UNCHANGED <<entry, cloud, pc, cur, requests, open, saved, exitval>>
    /\ UNCHANGED <<retryVars, pixelVars, saveVars, transformVars,
                    crsVars, sizeVars, jobVars>>

\* download_corrected_orthophoto raises: control goes to the except clause.
DownloadFails ==
    /\ Running("correct")
    /\ requests' = requests + 1
    /\ frames' = [frames EXCEPT ![cur].dl = "failed", ![cur].st = "except"]
    /\ UNCHANGED <<entry, cloud, pc, cur, open, saved, exitval>>
    /\ UNCHANGED <<retryVars, pixelVars, saveVars, transformVars,
                    crsVars, sizeVars, jobVars>>

\* download_corrected_orthophoto returns a file, rasterio.open opens it and
\* colorize_point_cloud calls itself with the replacement.
DownloadAndRecurse ==
    /\ Running("correct")
    /\ cur <= MaxDepth
    /\ requests' = requests + 1
    /\ \E r \in Rasters :
          frames' = Append([frames EXCEPT ![cur].dl = "ok",
                                          ![cur].st = "waiting"],
                           NewFrame(r))
    /\ cur' = cur + 1
    /\ open' = open \cup {cur + 1}
    /\ UNCHANGED <<entry, cloud, pc, saved, exitval>>
    /\ UNCHANGED <<retryVars, pixelVars, saveVars, transformVars,
                    crsVars, sizeVars, jobVars>>

\* except Exception: after a failed download or a failed recursive call.
ExceptHandler ==
    /\ Running("except")
    /\ frames' = [frames EXCEPT ![cur] =
           IF FailureOutcome(@.valid) = "raise"
           THEN [@ EXCEPT !.st = "raised", !.out = Error("ZeroCoverage")]
           ELSE [@ EXCEPT !.st = "sample"]]
    /\ UNCHANGED <<entry, cloud, pc, cur, requests, open, saved, exitval>>
    /\ UNCHANGED <<retryVars, pixelVars, saveVars, transformVars,
                    crsVars, sizeVars, jobVars>>

\* The band rule and the color extraction from the raster given.
SampleColors ==
    /\ Running("sample")
    /\ frames' = [frames EXCEPT ![cur] =
           IF BandsSupported(@.raster.count)
           THEN [@ EXCEPT !.st = "returned",
                          !.out = Value(cur, frames[cur].valid)]
           ELSE [@ EXCEPT !.st = "raised", !.out = Error("UnsupportedBands")]]
    /\ UNCHANGED <<entry, cloud, pc, cur, requests, open, saved, exitval>>
    /\ UNCHANGED <<retryVars, pixelVars, saveVars, transformVars,
                    crsVars, sizeVars, jobVars>>

\* The recursive call returns: the with block closes the replacement and
\* the caller returns the same (colors, valid_mask).
NestedReturns ==
    /\ cur > 1 /\ Running("returned")
    /\ frames' = [frames EXCEPT ![cur - 1].nested = frames[cur].out,
                                ![cur - 1].out = frames[cur].out,
                                ![cur - 1].st = "returned"]
    /\ cur' = cur - 1
    /\ open' = open \ {cur}
    /\ UNCHANGED <<entry, cloud, pc, requests, saved, exitval>>
    /\ UNCHANGED <<retryVars, pixelVars, saveVars, transformVars,
                    crsVars, sizeVars, jobVars>>

\* The recursive call raises: the with block closes the replacement and
\* the caller's except clause takes over.
NestedRaises ==
    /\ cur > 1 /\ Running("raised")
    /\ frames' = [frames EXCEPT ![cur - 1].nested = frames[cur].out,
                                ![cur - 1].st = "except"]
    /\ cur' = cur - 1
    /\ open' = open \ {cur}
    /\ UNCHANGED <<entry, cloud, pc, requests, saved, exitval>>
    /\ UNCHANGED <<retryVars, pixelVars, saveVars, transformVars,
                    crsVars, sizeVars, jobVars>>

\* process_files: colorize_point_cloud is back.  An exception leaves the
\* try block through finally: ortho_dataset.close().
ColorizeDone ==
    /\ pc = "colorize" /\ cur = 1
    /\ \/ /\ frames[1].st = "returned"
          /\ pc' = "save"
          /\ UNCHANGED <<open, exitval>>
       \/ /\ frames[1].st = "raised"
          /\ pc' = "failed"
          /\ exitval' = frames[1].out
          /\ open' = open \ {1}
    /\ cur' = 0
    /\ UNCHANGED <<entry, cloud, frames, requests, saved>>
    /\ UNCHANGED <<retryVars, pixelVars, saveVars, transformVars,
                    crsVars, sizeVars, jobVars>>

\* process_files: save_colorized_point_cloud writes the trimmed cloud, or
\* raises and finally closes the raster.
SaveOutput ==
    /\ pc = "save"
    /\ \/ /\ saved' = [written |-> TRUE, src |-> frames[1].out.src,
                       nvalid |-> frames[1].out.nvalid]
          /\ pc' = "summary"
          /\ UNCHANGED <<open, exitval>>
       \/ /\ pc' = "failed"
          /\ exitval' = Error("SaveFailed")
          /\ open' = open \ {1}
          /\ UNCHANGED saved
    /\ UNCHANGED <<entry, cloud, frames, cur, requests>>
    /\ UNCHANGED <<retryVars, pixelVars, saveVars, transformVars,
                    crsVars, sizeVars, jobVars>>

\* process_files: create_summary_report, return, finally close.
SummaryAndReturn ==
    /\ pc = "summary"
    /\ \/ /\ pc' = "done"
          /\ exitval' = frames[1].out
       \/ /\ pc' = "failed"
          /\ exitval' = Error("SummaryFailed")
    /\ open' = open \ {1}
    /\ UNCHANGED <<entry, cloud, frames, cur, requests, saved>>
    /\ UNCHANGED <<retryVars, pixelVars, saveVars, transformVars,
                    crsVars, sizeVars, jobVars>>

(***************************************************************************)
(* main() of scripts/process_point_cloud.py.                               *)
(***************************************************************************)
\* load_point_cloud and load_satellite_image: sys.exit(1) on failure.
ScriptLoad ==
    /\ entry = "main" /\ pc = "start"
    /\ \/ /\ pc' = "failed"
          /\ exitval' = Error("LoadFailed")
          /\ UNCHANGED <<frames, open>>
       \/ \E r \in Rasters :
             /\ pc' = "convert"
             /\ frames' = <<NewFrame(r)>>
             /\ open' = {1}
             /\ UNCHANGED exitval
    /\ UNCHANGED <<entry, cloud, cur, requests, saved>>
    /\ UNCHANGED <<retryVars, pixelVars, saveVars, transformVars,
                    crsVars, sizeVars, jobVars>>

\* convert_point_cloud_to_image_coordinates, then the zero-valid test of
\* main: close the raster and return 1.
ScriptConvert ==
    /\ entry = "main" /\ pc = "convert"
    /\ LET r == frames[1].raster
           v == NumValid(cloud, r)
       IN  /\ frames' = [frames EXCEPT ![1].valid = v,
                                       ![1].total = Total(cloud),
                                       ![1].ovx = OverlapX(cloud, r),
                                       ![1].ovy = OverlapY(cloud, r),
                                       ![1].st = "mapped"]
           /\ IF v = 0
              THEN /\ pc' = "done"
                   /\ exitval' = [kind |-> "return1", src |-> 0,
                                  nvalid |-> 0, err |-> "ZeroCoverage"]
                   /\ open' = open \ {1}
              ELSE /\ pc' = "extract"
                   /\ UNCHANGED <<open, exitval>>
    /\ UNCHANGED <<entry, cloud, cur, requests, saved>>
    /\ UNCHANGED <<retryVars, pixelVars, saveVars, transformVars,
                    crsVars, sizeVars, jobVars>>

\* extract_colors_from_image: colors for the valid points (all zero when
\* the band count is unsupported; it does not raise).
ScriptExtract ==
    /\ entry = "main" /\ pc = "extract"
    /\ pc' = "ssave"
    /\ frames' = [frames EXCEPT ![1].out = Value(1, frames[1].valid)]
    /\ UNCHANGED <<entry, cloud, cur, requests, open, saved, exitval>>
    /\ UNCHANGED <<retryVars, pixelVars, saveVars, transformVars,
                    crsVars, sizeVars, jobVars>>

\* save_colorized_point_cloud, raster_dataset.close(), return 0; an
\* exception of the save leaves main at once.
ScriptSave ==
    /\ entry = "main" /\ pc = "ssave"
    /\ \/ /\ saved' = [written |-> TRUE, src |-> 1,
                       nvalid |-> frames[1].valid]
          /\ pc' = "done"
          /\ exitval' = frames[1].out
          /\ open' = open \ {1}
       \/ /\ pc' = "failed"
          /\ exitval' = Error("SaveFailed")
          /\ UNCHANGED <<open, saved>>
    /\ UNCHANGED <<entry, cloud, frames, cur, requests>>
    /\ UNCHANGED <<retryVars, pixelVars, saveVars, transformVars,
                    crsVars, sizeVars, jobVars>>

PipeNext ==
    \/ LoadFiles
    \/ ColorizeEnter
    \/ DownloadFails
    \/ DownloadAndRecurse
    \/ ExceptHandler
    \/ SampleColors
    \/ NestedReturns
    \/ NestedRaises
    \/ ColorizeDone
    \/ SaveOutput
    \/ SummaryAndReturn
    \/ ScriptLoad
    \/ ScriptConvert
    \/ ScriptExtract
    \/ ScriptSave

\* The pipeline variables while another specification runs.
PipeIdle ==
    /\ entry = "none"
    /\ cloud = [l \in Locs |-> 0]
    /\ pc = "idle"
    /\ frames = <<>>
    /\ cur = 0
    /\ requests = 0
    /\ open = {}
    /\ saved = NotSaved
    /\ exitval = NoOut

(***************************************************************************)
(* The retry loops: _fetch_point_cloud_data (archive), the geocoding loop  *)
(* of process_point_cloud_background (app.py), and the size loop of        *)
(* NAIPFetcher.export_image / download_corrected_orthophoto.               *)
(***************************************************************************)
\* max_retries = 3 of _fetch_point_cloud_data.
FetchMaxRetries == 3
\* retry_delay = 5 (seconds) of _fetch_point_cloud_data.
FetchRetryDelay == 5
\* max_retries = 3 of the geocoding loop.
GeocodeMaxRetries == 3

RECURSIVE Pow2(_)
Pow2(n) == IF n = 0 THEN 1 ELSE 2 * Pow2(n - 1)

Tried(n) == [ev |-> "attempt", n |-> n]
Slept(s) == [ev |-> "sleep", n |-> s]

\* What one download_point_cloud call can do: return an existing file,
\* return without a file, raise an error whose text has a network keyword,
\* raise any other error.
FetchOutcomes == {"ok", "nofile", "network", "other"}

FetchMoreAttemptsInclusive(attempt) == attempt <= FetchMaxRetries

\* for attempt in range(max_retries)
FetchMoreAttempts(attempt) == attempt < FetchMaxRetries

\* One iteration of the download loop, with what follows it when the loop
\* ends: the raise of the last attempt or the RuntimeError after the loop.
FetchAttempt ==
    /\ fSt = "loop" /\ FetchMoreAttempts(fAttempt)
    /\ \E o \in FetchOutcomes :
          LET tried == Append(fLog, Tried(fAttempt + 1))
              sleeps == o = "network" /\ fAttempt < FetchMaxRetries - 1
              raises == o \in {"network", "other"}
                        /\ fAttempt = FetchMaxRetries - 1
          IN  /\ fLog' = IF sleeps THEN Append(tried, Slept(fDelay))
                         ELSE tried
              /\ fDelay' = IF sleeps THEN fDelay * 2 ELSE fDelay
              /\ fAttempt' = IF o = "ok" \/ raises THEN fAttempt
                             ELSE fAttempt + 1
              /\ fSt' = IF o = "ok" THEN "returned"
                        ELSE IF raises \/ ~FetchMoreAttempts(fAttempt + 1)
                        THEN "raised"
                        ELSE "loop"
    /\ UNCHANGED <<gAttempt, gSt, jobStatus, gLog>>
    /\ UNCHANGED <<xFn, xReq, xIdx, xSt, xLog>>
    /\ UNCHANGED <<pipeVars, pixelVars, saveVars, transformVars,
                    crsVars, sizeVars, jobVars>>

\* What one geocode_address call can do: coordinates, (None, None),
\* coordinates out of range, an exception.
GeocodeOutcomes == {"ok", "none", "invalid", "error"}

\* for attempt in range(max_retries)
GeocodeMoreAttempts(attempt) == attempt < GeocodeMaxRetries

\* One iteration of the geocoding loop: break on success; on the last
\* attempt the job is marked FAILED and the runner returns; otherwise
\* time.sleep(2**attempt).
GeocodeAttempt ==
    /\ gSt = "loop" /\ GeocodeMoreAttempts(gAttempt)
    /\ \E o \in GeocodeOutcomes :
          LET tried == Append(gLog, Tried(gAttempt + 1))
              last == gAttempt = GeocodeMaxRetries - 1
          IN  IF o = "ok"
              THEN /\ gSt' = "geocoded"
                   /\ gLog' = tried
                   /\ UNCHANGED <<gAttempt, jobStatus>>
              ELSE IF last
              THEN /\ gSt' = "returned"
                   /\ jobStatus' = "failed"
                   /\ gLog' = tried
                   /\ UNCHANGED gAttempt
              ELSE /\ gLog' = Append(tried, Slept(Pow2(gAttempt)))
                   /\ gAttempt' = gAttempt + 1
                   /\ UNCHANGED <<gSt, jobStatus>>
    /\ UNCHANGED <<fAttempt, fDelay, fSt, fLog>>
    /\ UNCHANGED <<xFn, xReq, xIdx, xSt, xLog>>
    /\ UNCHANGED <<pipeVars, pixelVars, saveVars, transformVars,
                    crsVars, sizeVars, jobVars>>

\* fallback_sizes
FallbackSizes == <<<<2048, 2048>>, <<1024, 1024>>, <<512, 512>>>>

InSeq(x, s) == \E i \in 1..Len(s) : s[i] = x

\* Remove duplicates while preserving order.
RECURSIVE Dedupe(_, _)
Dedupe(s, seen) ==
    IF s = <<>> THEN <<>>
    ELSE IF InSeq(Head(s), seen) THEN Dedupe(Tail(s), seen)
    ELSE <<Head(s)>> \o Dedupe(Tail(s), Append(seen, Head(s)))

UniqueSizes(req) == Dedupe(<<req>> \o FallbackSizes, <<>>)

\* Sizes the callers ask for: _calculate_optimal_size gives 1..max_image_width
\* by 1..max_image_height (4000 by default), or the caller's own size;
\* download_corrected_orthophoto asks for 200..2000 in each dimension.
RequestedSizes(fn) ==
    IF fn = "export_image"
    THEN {<<4000, 4000>>, <<2048, 2048>>, <<1024, 1024>>, <<127, 127>>}
    ELSE {<<2000, 2000>>, <<1024, 1024>>, <<200, 200>>}

\* What one request can bring: an image that is saved; a JSON error naming
\* the size limit; another JSON error; an image of less than 1000 bytes; a
\* requests exception; an error while the file is written.
ExportOutcomes ==
    {"ok", "sizelimit", "serviceerror", "smallimage", "network", "ioerror"}

\* Whether the loop goes on to the next size after a failed request.
ExportContinues(fn, o, notLast) ==
    IF fn = "export_image"
    THEN notLast /\ o \in {"sizelimit", "smallimage", "network"}
    ELSE notLast

\* One iteration of the size loop, with the raise that ends the function
\* when the loop does not go on.
ExportAttempt ==
    /\ xSt = "loop" /\ xIdx < Len(UniqueSizes(xReq))
    /\ \E o \in ExportOutcomes :
          LET sizes == UniqueSizes(xReq)
              notLast == xIdx < Len(sizes) - 1
              goesOn == o # "ok" /\ ExportContinues(xFn, o, notLast)
          IN  /\ xLog' = Append(xLog, [size |-> sizes[xIdx + 1], got |-> o])
              /\ xIdx' = IF goesOn THEN xIdx + 1 ELSE xIdx
              /\ xSt' = IF o = "ok" THEN "returned"
                        ELSE IF goesOn THEN "loop" ELSE "raised"
    /\ UNCHANGED <<xFn, xReq>>
    /\ UNCHANGED <<fAttempt, fDelay, fSt, fLog>>
    /\ UNCHANGED <<gAttempt, gSt, jobStatus, gLog>>
    /\ UNCHANGED <<pipeVars, pixelVars, saveVars, transformVars,
                    crsVars, sizeVars, jobVars>>

\* One of the three loops is entered; the other two are not running.
RetryInit ==
    /\ fAttempt = 0 /\ fDelay = FetchRetryDelay /\ fLog = <<>>
    /\ gAttempt = 0 /\ gLog = <<>>
    /\ xIdx = 0 /\ xLog = <<>>
    /\ \/ /\ fSt = "loop"
          /\ gSt = "idle" /\ jobStatus = "none"
          /\ xSt = "idle" /\ xFn = "none" /\ xReq = <<0, 0>>
       \/ /\ gSt = "loop" /\ jobStatus = "processing"
          /\ fSt = "idle"
          /\ xSt = "idle" /\ xFn = "none" /\ xReq = <<0, 0>>
       \/ /\ xSt = "loop"
          /\ xFn \in {"export_image", "download_corrected_orthophoto"}
          /\ xReq \in RequestedSizes(xFn)
          /\ fSt = "idle"
          /\ gSt = "idle" /\ jobStatus = "none"

\* The retry variables while another specification runs.
RetryIdle ==
    /\ fAttempt = 0 /\ fDelay = FetchRetryDelay /\ fSt = "idle"
    /\ fLog = <<>>
    /\ gAttempt = 0 /\ gSt = "idle" /\ jobStatus = "none" /\ gLog = <<>>
    /\ xFn = "none" /\ xReq = <<0, 0>> /\ xIdx = 0 /\ xSt = "idle"
    /\ xLog = <<>>

RetryNext ==
    \/ FetchAttempt
    \/ GeocodeAttempt
    \/ ExportAttempt

PixelIdle ==
    /\ pVariant = "none" /\ pBuild = "none" /\ pRaster = 0 /\ pPts = <<>>
    /\ pSt = "idle" /\ pCols = <<>> /\ pRows = <<>> /\ pMask = <<>>
    /\ pReads = {} /\ pColors = <<>>

(***************************************************************************)
(* The pixel mapper and the color sampler: lines 664-698 and 758-847 of    *)
(* colorize_point_cloud (archive), and                                     *)
(* convert_point_cloud_to_image_coordinates / extract_colors_from_image    *)
(* (scripts).  Rasters are uint8, uint16 or float32; a float32 sample is    *)
(* counted in quarters (the sample s stands for s / 4), so that every      *)
(* product with 65535 is exact in float32.                                 *)
(***************************************************************************)
\* The integer q * 2^32 + r, for r within the int32 range.
Wide(q, r) == [q |-> q, r |-> r]

\* A transformed point: x + farx * 2^32 * res, y + fary * 2^32 * res.
Point(x, y, fx, fy) == [x |-> x, y |-> y, farx |-> fx, fary |-> fy]

PixelPoints ==
    {Point(x, 1, 0, 0) : x \in {-1, 0, 1, 2}}
       \cup {Point(1, y, 0, 0) : y \in {-1, 0, 2, 3}}
       \cup {Point(0, 1, 1, 0), Point(1, 1, 0, -1)}

PixelRaster(w, h, r, n, dt, vals) ==
    [left |-> 0, bottom |-> 0, width |-> w, height |-> h, res |-> r,
     count |-> n, dtype |-> dt, vals |-> vals]

PixelRasters ==
    {PixelRaster(2, 2, 1, 3, "uint16", <<0, 65535, 1, 256, 40000>>),
     PixelRaster(2, 2, 1, 3, "uint16", <<0>>),
     PixelRaster(2, 2, 1, 3, "uint8", <<255>>),
     PixelRaster(2, 2, 1, 3, "uint8", <<0, 255, 1, 128, 77>>),
     PixelRaster(1, 2, 2, 1, "uint8", <<0, 200>>),
     PixelRaster(2, 1, 1, 2, "uint16", <<7>>),
     PixelRaster(2, 2, 1, 4, "uint16", <<0, 9, 65535>>),
     PixelRaster(2, 2, 1, 3, "float32", <<0, 4, 2, 6, -2>>),
     PixelRaster(2, 2, 1, 1, "float32", <<1, 4, 5>>)}

\* The sample of a band at (row, col): the raster's values laid out band
\* after band, row after row.
PixelValue(r, band, row, col) ==
    r.vals[(((band - 1) + row * r.width + col) % Len(r.vals)) + 1]

\* rasterio.transform.rowcol: the exact column and row of a point.
TrueCol(r, p) == Wide(p.farx, PixelCol(r, p.x))
TrueRow(r, p) == Wide(-p.fary, PixelRow(r, p.y))

\* np.array(cols, dtype=np.int32) keeps the low 32 bits where it does not
\* raise; np.array(cols) of the script keeps the value.
StoredIndex(variant, a) ==
    IF variant = "colorize_point_cloud" THEN Wide(0, a.r) ELSE a

\* The conversion to int32 raises OverflowError on the builds that check
\* the range.
ConversionRaises(variant, build, r, pts) ==
    /\ variant = "colorize_point_cloud"
    /\ build = "checks"
    /\ \E i \in 1..Len(pts) :
          TrueCol(r, pts[i]).q # 0 \/ TrueRow(r, pts[i]).q # 0

\* (cols >= 0) & (cols < width) & (rows >= 0) & (rows < height) on the
\* stored indices.
StoredValid(c, rw, w, h) ==
    c.q = 0 /\ rw.q = 0 /\ ValidPixel(c.r, rw.r, w, h)

PixelInit ==
    /\ pVariant \in {"colorize_point_cloud", "script"}
    /\ pBuild \in {"wraps", "checks"}
    /\ pRaster \in PixelRasters
    /\ pPts \in UNION {[1..n -> PixelPoints] : n \in 1..MaxPts}
    /\ pSt = "start"
    /\ pCols = <<>> /\ pRows = <<>> /\ pMask = <<>>
    /\ pReads = {} /\ pColors = <<>>

\* rowcol, the integer arrays and the valid mask.
PixelMap ==
    /\ pSt = "start"
    /\ IF ConversionRaises(pVariant, pBuild, pRaster, pPts)
       THEN /\ pSt' = "raised"
            /\ UNCHANGED <<pCols, pRows, pMask>>
       ELSE LET cols == [i \in 1..Len(pPts) |->
                           StoredIndex(pVariant, TrueCol(pRaster, pPts[i]))]
                rows == [i \in 1..Len(pPts) |->
                           StoredIndex(pVariant, TrueRow(pRaster, pPts[i]))]
            IN  /\ pCols' = cols
                /\ pRows' = rows
                /\ pMask' = [i \in 1..Len(pPts) |->
                               StoredValid(cols[i], rows[i],
                                           pRaster.width, pRaster.height)]
                /\ pSt' = "mapped"
    /\ UNCHANGED <<pVariant, pBuild, pRaster, pPts, pReads, pColors>>
    /\ UNCHANGED <<pipeVars, retryVars, saveVars, transformVars,
                    crsVars, sizeVars, jobVars>>

NumMasked(mask) == Cardinality({i \in 1..Len(mask) : mask[i]})

\* The band read for channel k (1 red, 2 green, 3 blue).
BandOf(count, k) == IF count = 1 THEN 1 ELSE k

\* float32 arithmetic on positive values m * 2^(-e) with a 24-bit m.
RECURSIVE DivBits(_, _, _, _)
DivBits(q, r, d, n) ==
    IF n = 0 THEN <<q, r>>
    ELSE DivBits(2 * q + (2 * r) \div d, (2 * r) % d, d, n - 1)

RoundNearestEven(q, rem, half) ==
    IF rem > half \/ (rem = half /\ q % 2 = 1) THEN q + 1 ELSE q

\* float32(v) / d for integers 0 < v <= d < 2^23.
F32Div(v, d) ==
    LET e == CHOOSE n \in 0..31 :
                 LET q == DivBits(v \div d, v % d, d, n)[1]
                 IN  q >= Pow2(23) /\ q < Pow2(24)
        qr == DivBits(v \div d, v % d, d, e)
    IN  [m |-> IF 2 * qr[2] > d \/ (2 * qr[2] = d /\ qr[1] % 2 = 1)
               THEN qr[1] + 1 ELSE qr[1],
         e |-> e]

\* a * 65535.0: the 40-bit product m * 65535 = hi * 2^16 + lo rounded to
\* 24 bits.
F32Mul65535(a) ==
    LET mh == a.m \div 65536
        ml == a.m % 65536
        hi == IF ml = 0 THEN a.m - mh ELSE a.m - mh - 1
        lo == IF ml = 0 THEN 0 ELSE 65536 - ml
    IN  IF hi >= Pow2(23)
        THEN [m |-> RoundNearestEven(hi, lo, 32768), e |-> a.e - 16]
        ELSE [m |-> RoundNearestEven(2 * hi + lo \div 32768, lo % 32768,
                                     16384),
              e |-> a.e - 15]

\* The integer part of a.
F32Trunc(a) == a.m \div Pow2(a.e)

\* Rounding toward zero of a / b, b > 0.
TruncQuot(a, b) == IF a >= 0 THEN a \div b ELSE -((-a) \div b)

\* np.clip(., 0, 65535)
Clip(t) == IF t < 0 THEN 0 ELSE IF t > 65535 THEN 65535 ELSE t

\* astype(np.uint16) of an integral value: the value when it fits; out of
\* range the C conversion is undefined, and the builds either keep the low
\* 16 bits or saturate.
CastModes == {"wrap", "saturate"}
AsUint16(t, cast) ==
    IF t >= 0 /\ t <= 65535 THEN t
    ELSE IF cast = "wrap" THEN t % 65536 ELSE Clip(t)

\* uint8 * 257 of the archive: Python integers are range-checked against
\* the array's type on the builds that check, which raise OverflowError.
ScaleRaises(variant, build, dtype) ==
    variant = "colorize_point_cloud" /\ build = "checks" /\ dtype = "uint8"

\* Lines 820-840 of colorize_point_cloud: the channel stored for sample s.
ArchiveChannel(dtype, s, cast) ==
    IF dtype = "uint8" THEN AsUint16((s * 257) % 65536, cast)
    ELSE IF dtype = "uint16" THEN AsUint16(s, cast)
    ELSE AsUint16(TruncQuot(s * 65535, 4), cast)

\* Lines 254-322 of extract_colors_from_image: float32 throughout, then
\* np.clip and astype.
ScriptChannel(dtype, s) ==
    IF dtype = "uint8"
    THEN IF s = 0 THEN 0
         ELSE Clip(F32Trunc(F32Mul65535(F32Div(s, 255))))
    ELSE IF dtype = "uint16" THEN Clip(s)
    ELSE Clip(TruncQuot(s * 65535, 4))

Channel(variant, dtype, s, cast) ==
    IF variant = "script" THEN ScriptChannel(dtype, s)
    ELSE ArchiveChannel(dtype, s, cast)

\* colors = np.zeros(...), the band rule, band[valid_rows, valid_cols],
\* the scaling and colors[valid_mask] = values.  colorize_point_cloud comes
\* here with at least one valid point; it raises on 2 bands and returns
\* nothing, where the script returns the zeros, as it does without a valid
\* point.
PixelSample ==
    /\ pSt = "mapped"
    /\ pVariant = "colorize_point_cloud" => NumMasked(pMask) > 0
    /\ LET n == Len(pPts)
           zeros == [i \in 1..n |-> <<0, 0, 0>>]
           sample(i, k) == PixelValue(pRaster, BandOf(pRaster.count, k),
                                      pRows[i].r, pCols[i].r)
           reads == {<<pRows[i].r, pCols[i].r>> :
                        i \in {j \in 1..n : pMask[j]}}
       IN  IF pVariant = "script" /\ NumMasked(pMask) = 0
           THEN pColors' = zeros /\ pSt' = "sampled" /\ UNCHANGED pReads
           ELSE IF ~BandsSupported(pRaster.count)
           THEN IF pVariant = "script"
                THEN pColors' = zeros /\ pSt' = "sampled"
                        /\ UNCHANGED pReads
                ELSE pSt' = "raised" /\ UNCHANGED <<pReads, pColors>>
           ELSE IF ScaleRaises(pVariant, pBuild, pRaster.dtype)
           THEN pReads' = reads /\ pSt' = "raised" /\ UNCHANGED pColors
           ELSE \E cast \in CastModes :
                   /\ pReads' = reads
                   /\ pColors' =
                         [i \in 1..n |->
                            IF pMask[i]
                            THEN [k \in 1..3 |->
                                    Channel(pVariant, pRaster.dtype,
                                            sample(i, k), cast)]
                            ELSE <<0, 0, 0>>]
                   /\ pSt' = "sampled"
    /\ UNCHANGED <<pVariant, pBuild, pRaster, pPts, pCols, pRows, pMask>>
    /\ UNCHANGED <<pipeVars, retryVars, saveVars, transformVars,
                    crsVars, sizeVars, jobVars>>

PixelNext ==
    \/ PixelMap
    \/ PixelSample

(***************************************************************************)
(* save_colorized_point_cloud: archive lines 881-984 (trimmed output, new  *)
(* header) and scripts lines 327-342 (all points, the input header).       *)
(***************************************************************************)
\* rgb_supported_formats
RgbSupportedFormats == {2, 3, 5, 7, 8, 10}

\* LAS versions and the point formats each allows.
LasVersions == {"1.2", "1.3", "1.4"}
FormatsOf(v) == IF v = "1.2" THEN 0..3 ELSE IF v = "1.3" THEN 0..5 ELSE 0..10

\* Point formats with a gps_time dimension.
GpsFormats == {1, 3, 4, 5, 6, 7, 8, 9, 10}

\* A dimension the point format does not have.
NoDim == <<>>

\* The header of the input file.  vlrs and evlrs are the record ids held;
\* extended records exist from LAS 1.4 on.
InputHeaders ==
    {h \in [version : LasVersions, format : 0..10, scale : {1, 100},
            offset : {0, 5},
            vlrs : {{}, {"LASF_Projection"}, {"LASF_Spec"}},
            evlrs : {{}, {"LASF_Projection"}}, extra : BOOLEAN] :
        /\ h.format \in FormatsOf(h.version)
        /\ h.evlrs # {} => h.version = "1.4"
        /\ h.scale = 100 <=> h.offset = 5
        /\ h.extra => h.format \in {1, 6}}

\* Point i of the input file under header h.
InputPoint(h, i) ==
    [xyz |-> 10 + i, intensity |-> 20 + i,
     gps_time |-> IF h.format \in GpsFormats THEN <<30 + i>> ELSE NoDim,
     extra |-> IF h.extra THEN <<40 + i>> ELSE NoDim,
     rgb |-> IF h.format \in RgbSupportedFormats THEN <<1, 1, 1>> ELSE NoDim]

\* What the sampler hands over: a color for a valid point, zeros otherwise.
SampledColor(mask, i) ==
    IF mask[i] THEN <<100 + i, 200 + i, 300 + i>> ELSE <<0, 0, 0>>

NoFile == [written |-> FALSE]

NewPointFormatKeep(id) == id

\* Lines 919-925: format 2 unless the input format supports colors.
NewPointFormat(id) == IF id \notin RgbSupportedFormats THEN 2 ELSE id

\* array[valid_mask]
RECURSIVE Compress(_, _)
Compress(arr, mask) ==
    IF arr = <<>> THEN <<>>
    ELSE (IF Head(mask) THEN <<Head(arr)>> ELSE <<>>)
            \o Compress(Tail(arr), Tail(mask))

Column(pts, f) == [i \in 1..Len(pts) |-> pts[i][f]]

\* laspy.LasHeader(version, point_format) with scales, offsets and vlrs
\* copied from the original header.
ArchiveHeader(h) ==
    [version |-> h.version, format |-> NewPointFormat(h.format),
     scale |-> h.scale, offset |-> h.offset,
     vlrs |-> IF h.vlrs # {} THEN h.vlrs ELSE {},
     evlrs |-> {}, extra |-> FALSE]

\* The points of colorized_las: x, y, z, the listed attributes and the
\* colors of the valid points; any other dimension of the new point format
\* keeps the zero it was created with.
ArchivePoints(h, pts, colors, mask) ==
    LET xyz == Compress(Column(pts, "xyz"), mask)
        intensity == Compress(Column(pts, "intensity"), mask)
        rgb == Compress(colors, mask)
    IN  [k \in 1..Len(xyz) |->
           [xyz |-> xyz[k], intensity |-> intensity[k],
            gps_time |-> IF NewPointFormat(h.format) \in GpsFormats
                         THEN <<0>> ELSE NoDim,
            extra |-> NoDim,
            rgb |-> rgb[k]]]

\* input_las_data.points.copy() with red, green, blue replaced.
ScriptPoints(pts, colors) ==
    [i \in 1..Len(pts) |-> [pts[i] EXCEPT !.rgb = colors[i]]]

SaveInit ==
    /\ sVariant \in {"archive", "script"}
    /\ \E h \in InputHeaders : \E n \in 1..MaxSavePts :
          /\ sIn = [header |-> h, points |-> [i \in 1..n |-> InputPoint(h, i)]]
          /\ sMask \in {m \in [1..n -> BOOLEAN] : \E i \in 1..n : m[i]}
    /\ sColors = [i \in 1..Len(sMask) |-> SampledColor(sMask, i)]
    /\ sOut = NoFile
    /\ sSt = "start"

\* The save variables while another specification runs.
SaveIdle ==
    /\ sVariant = "none" /\ sIn = NoFile /\ sMask = <<>> /\ sColors = <<>>
    /\ sOut = NoFile /\ sSt = "idle"

\* The whole of save_colorized_point_cloud.  The script raises when red is
\* assigned on a point format without colors; the write can fail in both.
SavePointCloud ==
    /\ sSt = "start"
    /\ \/ /\ sVariant = "archive"
          /\ sOut' = [written |-> TRUE, header |-> ArchiveHeader(sIn.header),
                      points |-> ArchivePoints(sIn.header, sIn.points,
                                               sColors, sMask)]
          /\ sSt' = "saved"
       \/ /\ sVariant = "script"
          /\ IF sIn.header.format \in RgbSupportedFormats
             THEN /\ sOut' = [written |-> TRUE, header |-> sIn.header,
                              points |-> ScriptPoints(sIn.points, sColors)]
                  /\ sSt' = "saved"
             ELSE sSt' = "raised" /\ UNCHANGED sOut
       \/ sSt' = "raised" /\ UNCHANGED sOut
    /\ UNCHANGED <<sVariant, sIn, sMask, sColors>>
    /\ UNCHANGED <<pipeVars, retryVars, pixelVars, transformVars,
                    crsVars, sizeVars, jobVars>>

SaveNext == SavePointCloud

\* The transform variables while another specification runs.
TransformIdle ==
    /\ tVariant = "none" /\ tIn = <<>> /\ tB = 1 /\ tCustom = FALSE
    /\ tI = 0 /\ tBuf = <<>> /\ tWrites = <<>> /\ tSt = "idle"
    /\ tCause = "none"
    /\ tRet = [kind |-> "none", wraps |-> "none", pts |-> <<>>]

(***************************************************************************)
(* The coordinate transform: transform_point_cloud_to_ortho_crs of the     *)
(* archive (batches) and transform_coordinates of the script (one call,    *)
(* with a fallback).  batch_size is 500000 in the source; here it is an    *)
(* input so that clouds of a few points take several batches.              *)
(***************************************************************************)
\* The coordinates a cloud may have in its own CRS.
SourceCoords == {<<1, 1>>, <<2, 5>>}

\* transformer.transform on one point: a map that is not the identity.
Transform(p) == <<3 * p[1] + 1, 3 * p[2] + 2>>

\* custom_transform_func of the caller on one point.
CustomTransform(p) == <<p[1] + 7, p[2] + 7>>

\* All sequences over S of length at most n.
SeqsUpTo(S, n) == UNION {[1..k -> S] : k \in 0..n}

\* The bounds-to-bounds scaling of the script: a coordinate c becomes
\* target_min + (c - min) * (target_max - target_min) / (max - min), here
\* the fraction <<c - min, max - min>> of the target span; the scale is 1
\* when max = min.
ApproxCoord(c, S) ==
    IF MaxOf(S) - MinOf(S) # 0 THEN <<c - MinOf(S), MaxOf(S) - MinOf(S)>>
    ELSE <<c - MinOf(S), 1>>
ApproxTransform(pts) ==
    [k \in 1..Len(pts) |->
       <<ApproxCoord(pts[k][1], {pts[j][1] : j \in 1..Len(pts)}),
         ApproxCoord(pts[k][2], {pts[j][2] : j \in 1..Len(pts)})>>]

\* end_idx of the batch that starts at i, written with the first batch
\* size only in mind.
BatchEndUnclamped(i, b, n) == i + b

\* end_idx = min(i + batch_size, total_points)
BatchEnd(i, b, n) == IF i + b < n THEN i + b ELSE n

TransformInit ==
    /\ tVariant \in {"archive", "script"}
    /\ tIn \in SeqsUpTo(SourceCoords, MaxN)
    /\ tB \in 1..MaxBatch
    /\ tCustom \in BOOLEAN
    /\ tVariant = "archive" => ~tCustom
    /\ tVariant = "script" => Len(tIn) > 0 /\ tB = 1
    /\ tI = 0 /\ tBuf = <<>> /\ tWrites = <<>> /\ tSt = "start"
    /\ tCause = "none"
    /\ tRet = [kind |-> "none", wraps |-> "none", pts |-> <<>>]

\* The archive up to the loop: the CRS objects and the transformer are
\* made, which may raise, and the output arrays are allocated as zeros.
TransformStart ==
    /\ tSt = "start" /\ tVariant = "archive"
    /\ \/ /\ tSt' = "loop"
          /\ tBuf' = [k \in 1..Len(tIn) |-> <<0, 0>>]
          /\ UNCHANGED <<tCause, tRet>>
       \/ /\ tSt' = "raised"
          /\ tCause' = "CRSError"
          /\ tRet' = [kind |-> "RuntimeError", wraps |-> "CRSError",
                       pts |-> <<>>]
          /\ UNCHANGED tBuf
    /\ UNCHANGED <<tVariant, tIn, tB, tCustom, tI, tWrites>>
    /\ UNCHANGED <<pipeVars, retryVars, pixelVars, saveVars,
                    crsVars, sizeVars, jobVars>>

\* One iteration of the batch loop: the slice [i, end_idx) is transformed
\* and written, or the transform raises and the except clause raises
\* RuntimeError with the cause in its message.
TransformBatch ==
    /\ tSt = "loop" /\ tI < Len(tIn)
    /\ LET end_idx == BatchEnd(tI, tB, Len(tIn))
       IN  \/ /\ tBuf' = [k \in 1..Len(tIn) |->
                             IF tI < k /\ k <= end_idx
                             THEN Transform(tIn[k]) ELSE tBuf[k]]
              /\ tWrites' = Append(tWrites, <<tI, end_idx>>)
              /\ tI' = tI + tB
              /\ UNCHANGED <<tSt, tCause, tRet>>
           \/ /\ tSt' = "raised"
              /\ tCause' = "ProjError"
              /\ tRet' = [kind |-> "RuntimeError", wraps |-> "ProjError",
                           pts |-> <<>>]
              /\ UNCHANGED <<tBuf, tWrites, tI>>
    /\ UNCHANGED <<tVariant, tIn, tB, tCustom>>
    /\ UNCHANGED <<pipeVars, retryVars, pixelVars, saveVars,
                    crsVars, sizeVars, jobVars>>

\* The range is exhausted: return transformed_x, transformed_y.
TransformReturn ==
    /\ tSt = "loop" /\ tI >= Len(tIn)
    /\ tSt' = "returned"
    /\ tRet' = [kind |-> "ok", wraps |-> "none", pts |-> tBuf]
    /\ UNCHANGED <<tVariant, tIn, tB, tCustom, tI, tBuf, tWrites, tCause>>
    /\ UNCHANGED <<pipeVars, retryVars, pixelVars, saveVars,
                    crsVars, sizeVars, jobVars>>

\* transform_coordinates of the script with a CRS identified: one call of
\* transformer.transform on all points; when it raises, the exception is
\* printed and the custom function or the approximate scaling answers.
ScriptTransform ==
    /\ tSt = "start" /\ tVariant = "script"
    /\ tSt' = "returned"
    /\ \/ /\ tRet' = [kind |-> "ok", wraps |-> "none",
                       pts |-> [k \in 1..Len(tIn) |-> Transform(tIn[k])]]
          /\ UNCHANGED tCause
       \/ /\ tCause' = "ProjError"
          /\ tRet' = IF tCustom
                      THEN [kind |-> "custom", wraps |-> "none",
                            pts |-> [k \in 1..Len(tIn) |->
                                       CustomTransform(tIn[k])]]
                      ELSE [kind |-> "approx", wraps |-> "none",
                            pts |-> ApproxTransform(tIn)]
    /\ UNCHANGED <<tVariant, tIn, tB, tCustom, tI, tBuf, tWrites>>
    /\ UNCHANGED <<pipeVars, retryVars, pixelVars, saveVars,
                    crsVars, sizeVars, jobVars>>

TransformNext ==
    TransformStart \/ TransformBatch \/ TransformReturn \/ ScriptTransform

(***************************************************************************)
(* The CRS of the point cloud: transform_point_cloud_to_ortho_crs of the   *)
(* archive up to the transform, reached from main through process_files or *)
(* called with a source_crs argument, and identify_point_cloud_crs of the  *)
(* script.                                                                 *)
(***************************************************************************)
\* CRSUtils.detect_point_cloud_crs (module utils): the embedded CRS of the
\* header, None when it has none.
DetectPointCloudCrs(embedded) == embedded

\* The three tests of the fallback on the coordinate ranges.
WebMercatorRule(r) ==
    /\ r.xmin < -1000000 /\ (IF r.xmin < 0 THEN -r.xmin ELSE r.xmin) < 20037508
    /\ r.ymin > 1000000 /\ r.ymax < 20037508
GeographicRule(r) ==
    -180 <= r.xmin /\ r.xmin <= 180 /\ -90 <= r.ymin /\ r.ymin <= 90
UtmRuleNarrow(r) ==
    /\ 100000 < r.xmin /\ r.xmin < 500000
    /\ 1000000 < r.ymin /\ r.ymin < 10000000
UtmRule(r) ==
    /\ 100000 < r.xmin /\ r.xmin < 900000
    /\ 1000000 < r.ymin /\ r.ymin < 10000000

\* The if / elif chain: the CRS of the first rule that matches.
HeuristicCrs(r) ==
    IF WebMercatorRule(r) THEN "EPSG:3857"
    ELSE IF GeographicRule(r) THEN "EPSG:4326"
    ELSE IF UtmRule(r) THEN "EPSG:26913"
    ELSE "none"

\* The source_crs argument that reaches the transform: process_files calls
\* colorize_point_cloud without one, and main does not read args.source_crs.
SourceCrsArgument(variant, override) ==
    IF variant = "call" THEN override ELSE "none"

\* source_crs of the archive after lines 229-269, with the branch taken.
ResolveArchive(arg, embedded, r) ==
    IF arg # "none" THEN [crs |-> arg, by |-> "argument"]
    ELSE IF DetectPointCloudCrs(embedded) # "none"
         THEN [crs |-> DetectPointCloudCrs(embedded), by |-> "embedded"]
         ELSE [crs |-> HeuristicCrs(r), by |-> "heuristic"]

\* identify_point_cloud_crs of the script.
IdentifyPointCloudCrs(embedded) ==
    IF embedded # "none" THEN [crs |-> embedded, by |-> "embedded"]
    ELSE [crs |-> "EPSG:2232", by |-> "default"]

CrsInit ==
    /\ cVariant \in {"main", "call", "script"}
    /\ cOverride \in {"none", "EPSG:2232"}
    /\ cVariant = "script" => cOverride = "none"
    /\ cEmbedded \in {"none", "EPSG:32613"}
    \* Ranges of clouds in degrees, in metres of a world or of a zone grid,
    \* and in feet of a state plane.
    /\ cRange \in
          {r \in [xmin : {-5000000, -200, -100, 100, 181, 500000, 3000000},
                  xmax : {-5000000, -200, -100, 100, 181, 500000, 3000000},
                  ymin : {-91, 45, 91, 2000000, 4400000, 20037509},
                  ymax : {-91, 45, 91, 2000000, 4400000, 20037509}] :
              r.xmin <= r.xmax /\ r.ymin <= r.ymax}
    /\ cSt = "start"
    /\ cCrs = [crs |-> "none", by |-> "none"]

CrsIdle ==
    /\ cVariant = "none" /\ cOverride = "none" /\ cEmbedded = "none"
    /\ cRange = [xmin |-> 0, xmax |-> 0, ymin |-> 0, ymax |-> 0]
    /\ cSt = "idle" /\ cCrs = [crs |-> "none", by |-> "none"]

\* The source CRS is settled, or ValueError is raised.
CrsResolve ==
    /\ cSt = "start"
    /\ LET res == IF cVariant = "script"
                  THEN IdentifyPointCloudCrs(cEmbedded)
                  ELSE ResolveArchive(SourceCrsArgument(cVariant, cOverride),
                                      cEmbedded, cRange)
       IN  /\ cCrs' = res
           /\ cSt' = IF res.crs = "none" THEN "raised" ELSE "resolved"
    /\ UNCHANGED <<cVariant, cOverride, cEmbedded, cRange>>
    /\ UNCHANGED <<pipeVars, retryVars, pixelVars, saveVars, transformVars,
                   sizeVars, jobVars>>

\* Transformer.from_crs(source_crs, ...) and the transform are attempted.
CrsTransform ==
    /\ cSt = "resolved"
    /\ cSt' = "transforming"
    /\ UNCHANGED <<cVariant, cOverride, cEmbedded, cRange, cCrs>>
    /\ UNCHANGED <<pipeVars, retryVars, pixelVars, saveVars, transformVars,
                   sizeVars, jobVars>>

(***************************************************************************)
(* The pixel-size check of colorize_point_cloud.  A raster is its affine   *)
(* coefficients a, b, d, e (x = a*col + b*row + c, y = d*col + e*row + f)  *)
(* and its size; the bounds are the ones the dataset derives from them.    *)
(***************************************************************************)
\* bounds.right - bounds.left: a * width for an unrotated raster, else the
\* spread of the x of the four corners.
ExtentX(r) ==
    IF r.b = 0 /\ r.d = 0 THEN r.a * r.width
    ELSE LET xs == {0, r.b * r.height, r.a * r.width + r.b * r.height,
                    r.a * r.width}
         IN  MaxOf(xs) - MinOf(xs)

\* bounds.top - bounds.bottom: -e * height for an unrotated raster.
ExtentY(r) ==
    IF r.b = 0 /\ r.d = 0 THEN -r.e * r.height
    ELSE LET ys == {0, r.e * r.height, r.d * r.width + r.e * r.height,
                    r.d * r.width}
         IN  MaxOf(ys) - MinOf(ys)

\* abs(declared - expected) > expected * 0.1 with expected = extent / n,
\* both sides multiplied by 10 * n (n > 0).
PixelSizeMismatch(declared, extent, n) ==
    LET diff == declared * n - extent
    IN  10 * (IF diff < 0 THEN -diff ELSE diff) > extent

\* transform_issues with transform[4] compared as it is, without abs().
TransformIssuesSigned(r) ==
    (IF PixelSizeMismatch(r.a, ExtentX(r), r.width)
     THEN <<"X pixel size mismatch">> ELSE <<>>)
    \o (IF PixelSizeMismatch(r.e, ExtentY(r), r.height)
        THEN <<"Y pixel size mismatch">> ELSE <<>>)

\* transform_issues: transform[0] and abs(transform[4]) against the
\* expected pixel width and height.
TransformIssues(r) ==
    (IF PixelSizeMismatch(r.a, ExtentX(r), r.width)
     THEN <<"X pixel size mismatch">> ELSE <<>>)
    \o (IF PixelSizeMismatch(IF r.e < 0 THEN -r.e ELSE r.e, ExtentY(r),
                             r.height)
        THEN <<"Y pixel size mismatch">> ELSE <<>>)

SizeInit ==
    /\ zRaster \in [a : {-1, 1, 8, 9, 10}, b : {0, 1, 2}, d : {0, 1},
                    e : {-10, -9, -8, -1, 1},
                    width : 1..MaxDim, height : 1..MaxDim]
    /\ zSt = "start" /\ zIssues = <<>> /\ zUsed = "none"

SizeIdle ==
    /\ zRaster = [a |-> 1, b |-> 0, d |-> 0, e |-> -1,
                  width |-> 1, height |-> 1]
    /\ zSt = "idle" /\ zIssues = <<>> /\ zUsed = "none"

\* The two comparisons fill transform_issues.
SizeCheck ==
    /\ zSt = "start"
    /\ zSt' = "checked"
    /\ zIssues' = TransformIssues(zRaster)
    /\ UNCHANGED <<zRaster, zUsed>>
    /\ UNCHANGED <<pipeVars, retryVars, pixelVars, saveVars, transformVars,
                   crsVars, jobVars>>

\* rowcol with from_bounds(...) if there are issues, else with
\* ortho_dataset.transform.
SizeMap ==
    /\ zSt = "checked"
    /\ zSt' = "mapped"
    /\ zUsed' = IF zIssues # <<>> THEN "derived" ELSE "declared"
    /\ UNCHANGED <<zRaster, zIssues>>
    /\ UNCHANGED <<pipeVars, retryVars, pixelVars, saveVars, transformVars,
                   crsVars, jobVars>>

(***************************************************************************)
(* One job of the API (app.py): process_point_cloud has stored the job as  *)
(* PENDING and queued process_point_cloud_background, which runs in a      *)
(* worker thread, while a download_file request runs on the event loop.    *)
(* update_job_status sets its keys one after the other under jobs_lock;    *)
(* get_job_safe returns the stored Job object itself, whose fields the     *)
(* request then reads without the lock.                                    *)
(***************************************************************************)
\* update_job_status(status=FAILED, error_message=..., completed_at=...)
FailedUpdate ==
    <<<<"status", "failed">>, <<"error_message", "set">>,
      <<"completed_at", "set">>>>

\* Where the task goes after the FAILED update of the branch that found no
\* datasets, had the return been left out.
AfterNoDatasetsContinue == "process"

\* The same with a return placed outside the try ... finally.
AfterNoDatasetsExit == "exited"

\* The return after the FAILED update of that branch runs the finally
\* clause.
AfterNoDatasets == "finally"

JobInit ==
    /\ jStatus = "pending" /\ jOutput = FALSE /\ jLock = "none"
    /\ bPc = "queued" /\ bAttempt = 0 /\ bUpdate = <<>>
    /\ bTemp = "none" /\ bHandler = "none"
    /\ rPc \in {"request", "absent"}
    /\ rSeen = [status |-> "none", output |-> FALSE]

JobIdle ==
    /\ jStatus = "none" /\ jOutput = FALSE /\ jLock = "none"
    /\ bPc = "idle" /\ bAttempt = 0 /\ bUpdate = <<>>
    /\ bTemp = "none" /\ bHandler = "none"
    /\ rPc = "idle" /\ rSeen = [status |-> "none", output |-> FALSE]

\* Lines 283-305: the log directory and the file handler, before the try;
\* mkdir or the opening of the log file may raise, and then the exception
\* leaves the function.
TaskSetup ==
    /\ bPc = "queued"
    /\ \/ bPc' = "started" /\ bHandler' = "added"
       \/ bPc' = "died" /\ UNCHANGED bHandler
    /\ UNCHANGED <<jStatus, jOutput, jLock, bAttempt, bUpdate, bTemp,
                   rPc, rSeen>>
    /\ UNCHANGED <<pipeVars, retryVars, pixelVars, saveVars, transformVars,
                   crsVars, sizeVars>>

\* One key of update_job_status: the lock is taken with the first key and
\* released with the last one.
UpdateStep ==
    /\ bUpdate # <<>>
    /\ jLock = "task" \/ jLock = "none"
    /\ jStatus' = IF Head(bUpdate)[1] = "status" THEN Head(bUpdate)[2]
                  ELSE jStatus
    /\ jOutput' = IF Head(bUpdate)[1] = "output_file" THEN TRUE ELSE jOutput
    /\ bUpdate' = Tail(bUpdate)
    /\ jLock' = IF Len(bUpdate) = 1 THEN "none" ELSE "task"
    /\ UNCHANGED <<bPc, bAttempt, bTemp, bHandler, rPc, rSeen>>
    /\ UNCHANGED <<pipeVars, retryVars, pixelVars, saveVars, transformVars,
                   crsVars, sizeVars>>

\* Lines 307-314: status PROCESSING.
TaskStart ==
    /\ bPc = "started" /\ bUpdate = <<>>
    /\ bUpdate' = <<<<"status", "processing">>, <<"metadata", "set">>>>
    /\ bPc' = "validate"
    /\ UNCHANGED <<jStatus, jOutput, jLock, bAttempt, bTemp, bHandler,
                   rPc, rSeen>>
    /\ UNCHANGED <<pipeVars, retryVars, pixelVars, saveVars, transformVars,
                   crsVars, sizeVars>>

\* Lines 318-326: the address and the buffer are checked; ValueError goes
\* to the outer except clause.
TaskValidate ==
    /\ bPc = "validate" /\ bUpdate = <<>>
    /\ \/ bPc' = "geocode" /\ UNCHANGED bUpdate
       \/ bPc' = "finally" /\ bUpdate' = FailedUpdate
    /\ UNCHANGED <<jStatus, jOutput, jLock, bAttempt, bTemp, bHandler,
                   rPc, rSeen>>
    /\ UNCHANGED <<pipeVars, retryVars, pixelVars, saveVars, transformVars,
                   crsVars, sizeVars>>

\* Lines 328-376: one attempt of the geocoding loop.
TaskGeocode ==
    /\ bPc = "geocode" /\ bUpdate = <<>>
    /\ \/ /\ bPc' = "search"
          /\ bUpdate' = <<<<"metadata", "set">>>>
          /\ UNCHANGED bAttempt
       \/ /\ bAttempt = GeocodeMaxRetries - 1
          /\ bPc' = "finally" /\ bUpdate' = FailedUpdate
          /\ UNCHANGED bAttempt
       \/ /\ bAttempt < GeocodeMaxRetries - 1
          /\ bAttempt' = bAttempt + 1
          /\ UNCHANGED <<bPc, bUpdate>>
    /\ UNCHANGED <<jStatus, jOutput, jLock, bTemp, bHandler, rPc, rSeen>>
    /\ UNCHANGED <<pipeVars, retryVars, pixelVars, saveVars, transformVars,
                   crsVars, sizeVars>>

\* Lines 378-448: the bounding box and the dataset search; datasets, no
\* datasets, or an exception.
TaskSearch ==
    /\ bPc = "search" /\ bUpdate = <<>>
    /\ \/ bPc' = "process" /\ bUpdate' = <<<<"metadata", "set">>>>
       \/ bPc' = AfterNoDatasets /\ bUpdate' = FailedUpdate
       \/ bPc' = "finally" /\ bUpdate' = FailedUpdate
    /\ UNCHANGED <<jStatus, jOutput, jLock, bAttempt, bTemp, bHandler,
                   rPc, rSeen>>
    /\ UNCHANGED <<pipeVars, retryVars, pixelVars, saveVars, transformVars,
                   crsVars, sizeVars>>

\* Lines 450-513: mkdtemp, then process_from_address and the checks of its
\* output file; every failure ends in a FAILED update.
TaskProcess ==
    /\ bPc = "process" /\ bUpdate = <<>>
    /\ \/ bPc' = "finally" /\ bUpdate' = FailedUpdate /\ UNCHANGED bTemp
       \/ bPc' = "finally" /\ bUpdate' = FailedUpdate /\ bTemp' = "created"
       \/ bPc' = "copy" /\ UNCHANGED bUpdate /\ bTemp' = "created"
    /\ UNCHANGED <<jStatus, jOutput, jLock, bAttempt, bHandler, rPc, rSeen>>
    /\ UNCHANGED <<pipeVars, retryVars, pixelVars, saveVars, transformVars,
                   crsVars, sizeVars>>

\* Lines 515-568: the copy to the outputs directory and the COMPLETED
\* update, or a failure of the copy.
TaskCopy ==
    /\ bPc = "copy" /\ bUpdate = <<>>
    /\ bPc' = "finally"
    /\ \/ bUpdate' = <<<<"status", "completed">>, <<"completed_at", "set">>,
                       <<"output_file", "set">>, <<"metadata", "set">>>>
       \/ bUpdate' = FailedUpdate
    /\ UNCHANGED <<jStatus, jOutput, jLock, bAttempt, bTemp, bHandler,
                   rPc, rSeen>>
    /\ UNCHANGED <<pipeVars, retryVars, pixelVars, saveVars, transformVars,
                   crsVars, sizeVars>>

\* Lines 580-585 and cleanup_temp_dir: rmtree removes the directory, or it
\* raises and the exception is logged as a warning; the handler is removed
\* and closed.
TaskFinally ==
    /\ bPc = "finally" /\ bUpdate = <<>>
    /\ bPc' = "exited"
    /\ \/ bTemp = "none" /\ UNCHANGED bTemp
       \/ bTemp = "created" /\ bTemp' \in {"removed", "left"}
    /\ bHandler' = "closed"
    /\ UNCHANGED <<jStatus, jOutput, jLock, bAttempt, bUpdate, rPc, rSeen>>
    /\ UNCHANGED <<pipeVars, retryVars, pixelVars, saveVars, transformVars,
                   crsVars, sizeVars>>

\* download_file, line 727: get_job_safe takes the lock and returns the
\* stored object.
DownloadGetJob ==
    /\ rPc = "request" /\ jLock = "none"
    /\ rPc' = "status"
    /\ UNCHANGED <<jStatus, jOutput, jLock, bPc, bAttempt, bUpdate, bTemp,
                   bHandler, rSeen>>
    /\ UNCHANGED <<pipeVars, retryVars, pixelVars, saveVars, transformVars,
                   crsVars, sizeVars>>

\* Lines 731-743: job.status is read; anything but COMPLETED is answered
\* at once.
DownloadReadStatus ==
    /\ rPc = "status"
    /\ rSeen' = [rSeen EXCEPT !.status = jStatus]
    /\ rPc' = IF jStatus = "completed" THEN "output" ELSE "answered"
    /\ UNCHANGED <<jStatus, jOutput, jLock, bPc, bAttempt, bUpdate, bTemp,
                   bHandler>>
    /\ UNCHANGED <<pipeVars, retryVars, pixelVars, saveVars, transformVars,
                   crsVars, sizeVars>>

\* Line 745: job.output_file is read.
DownloadReadOutput ==
    /\ rPc = "output"
    /\ rSeen' = [rSeen EXCEPT !.output = jOutput]
    /\ rPc' = "answered"
    /\ UNCHANGED <<jStatus, jOutput, jLock, bPc, bAttempt, bUpdate, bTemp,
                   bHandler>>
    /\ UNCHANGED <<pipeVars, retryVars, pixelVars, saveVars, transformVars,
                   crsVars, sizeVars>>


vars == <<pipeVars, retryVars, pixelVars, saveVars, transformVars,
          crsVars, sizeVars, jobVars>>

Init == PipeInit /\ RetryIdle /\ PixelIdle /\ SaveIdle /\ TransformIdle
       /\ CrsIdle /\ SizeIdle /\ JobIdle
Next == PipeNext
Spec == Init /\ [][Next]_vars

InitRetry ==
    PipeIdle /\ RetryInit /\ PixelIdle /\ SaveIdle /\ TransformIdle
       /\ CrsIdle /\ SizeIdle /\ JobIdle
NextRetry == RetryNext
SpecRetry == InitRetry /\ [][NextRetry]_vars

\* Every request and every sleep of the loops ends: the requests carry
\* timeouts and the waits are finite.
SpecRetryFair ==
    /\ SpecRetry
    /\ WF_vars(FetchAttempt)
    /\ WF_vars(GeocodeAttempt)
    /\ WF_vars(ExportAttempt)

InitPixel ==
    PipeIdle /\ RetryIdle /\ PixelInit /\ SaveIdle /\ TransformIdle
       /\ CrsIdle /\ SizeIdle /\ JobIdle
NextPixel == PixelNext
SpecPixel == InitPixel /\ [][NextPixel]_vars

InitSave ==
    PipeIdle /\ RetryIdle /\ PixelIdle /\ SaveInit /\ TransformIdle
       /\ CrsIdle /\ SizeIdle /\ JobIdle
NextSave == SaveNext
SpecSave == InitSave /\ [][NextSave]_vars

InitTransform ==
    PipeIdle /\ RetryIdle /\ PixelIdle /\ SaveIdle /\ TransformInit
       /\ CrsIdle /\ SizeIdle /\ JobIdle
NextTransform == TransformNext
SpecTransform == InitTransform /\ [][NextTransform]_vars

InitCrs ==
    PipeIdle /\ RetryIdle /\ PixelIdle /\ SaveIdle /\ TransformIdle
       /\ CrsInit /\ SizeIdle /\ JobIdle
SpecCrs == InitCrs /\ [][CrsResolve \/ CrsTransform]_vars

InitSize ==
    PipeIdle /\ RetryIdle /\ PixelIdle /\ SaveIdle /\ TransformIdle
       /\ CrsIdle /\ SizeInit /\ JobIdle
SpecSize == InitSize /\ [][SizeCheck \/ SizeMap]_vars

InitJob ==
    PipeIdle /\ RetryIdle /\ PixelIdle /\ SaveIdle /\ TransformIdle
       /\ CrsIdle /\ SizeIdle /\ JobInit
SpecJob ==
    InitJob
    /\ [][\/ TaskSetup \/ UpdateStep \/ TaskStart \/ TaskValidate
          \/ TaskGeocode \/ TaskSearch \/ TaskProcess \/ TaskCopy
          \/ TaskFinally
          \/ DownloadGetJob \/ DownloadReadStatus \/ DownloadReadOutput]_vars

(***************************************************************************)
(* Claims about the pipeline (checked under Spec).                         *)
(***************************************************************************)
Frames == 1..Len(frames)

\* The frame went through the coverage test of colorize_point_cloud.
Evaluated(i) ==
    entry = "process_files" /\ frames[i].raster.hasCrs /\ frames[i].st # "enter"

\* C1: within one invocation a replacement raster is requested at most once
\* and the correction recursion never goes deeper than one level.
C1_AtMostOneReplacement == requests <= 1 /\ Len(frames) <= 2

\* C2: a failed download of the replacement is caught; the invocation whose
\* download failed goes on and returns colors and mask computed from the
\* raster it was given when that raster had a valid point (the sampling of
\* that raster can still fail on its band count), and raises the
\* zero-coverage error exactly when it had none.
C2_DownloadFailureDegrades ==
    \A i \in Frames :
        frames[i].dl = "failed" /\ frames[i].st # "except" =>
            /\ frames[i].valid = 0 =>
                  /\ frames[i].st = "raised"
                  /\ frames[i].out = Error("ZeroCoverage")
            /\ frames[i].valid > 0 =>
                  /\ frames[i].st \in {"sample", "returned", "raised"}
                  /\ frames[i].st = "returned" =>
                        frames[i].out = Value(i, frames[i].valid)
                  /\ frames[i].st = "raised" =>
                        /\ frames[i].raster.count = 2
                        /\ frames[i].out = Error("UnsupportedBands")

C2_Witness ==
    /\ pc = "done"
    /\ frames[1].dl = "failed"
    /\ frames[1].valid > 0
    /\ saved.written /\ saved.src = 1 /\ saved.nvalid = frames[1].valid

\* C3: a replacement raster that was obtained and whose coverage is still
\* below the threshold is the one the pipeline proceeds with when its
\* coverage is not zero, and the pipeline fails when its coverage is zero
\* (rasters with a supported band count).
C3_ReplacementResultStands ==
    ( /\ Len(frames) >= 2
      /\ Evaluated(2)
      /\ frames[2].corr
      /\ frames[2].raster.count # 2
      /\ pc \in {"save", "summary", "done", "failed"} )
    => /\ frames[2].valid > 0 => frames[1].out = Value(2, frames[2].valid)
       /\ frames[2].valid = 0 => frames[1].st = "raised"

\* C4: the correction loop is entered exactly when no point is valid or
\* valid/total is strictly below 10%; at or above the threshold nothing is
\* requested and the colors are sampled from the raster given.
C4_CorrectionIffBelowThreshold ==
    /\ requests = Cardinality({i \in Frames : frames[i].dl # "none"})
    /\ \A i \in Frames :
          Evaluated(i) =>
             /\ frames[i].valid = NumValid(cloud, frames[i].raster)
             /\ frames[i].total = Total(cloud)
             /\ frames[i].corr <=>
                   (frames[i].valid = 0 \/ 10 * frames[i].valid < frames[i].total)
             /\ frames[i].corr /\ frames[i].dl = "none" => frames[i].st = "correct"
             /\ ~frames[i].corr =>
                   /\ frames[i].dl = "none"
                   /\ Len(frames) = i
                   /\ frames[i].st \in {"sample", "returned", "raised"}
                   /\ frames[i].st = "returned" =>
                         frames[i].out = Value(i, frames[i].valid)
                   /\ frames[i].st = "raised" => frames[i].raster.count = 2

C4_Witness ==
    /\ Len(frames) = 1
    /\ Evaluated(1)
    /\ 10 * frames[1].valid = frames[1].total
    /\ frames[1].st = "returned"
    /\ requests = 0

\* The code's overlap flags of frame i say that the bounds are disjoint on
\* at least one axis.
Disjoint(i) == ~(frames[i].ovx /\ frames[i].ovy)

C6_RastersClosedOnExit == pc \in {"done", "failed"} => open = {}

(***************************************************************************)
(* Claims about the retry loops (checked under SpecRetry).                 *)
(***************************************************************************)
\* Number of attempts recorded in a log.
Attempts(log) == Cardinality({k \in 1..Len(log) : log[k].ev = "attempt"})

\* Number of time.sleep calls recorded before position k of a log.
SleepsBefore(log, k) ==
    Cardinality({j \in 1..(k - 1) : log[j].ev = "sleep"})

\* The ceilings: the point-cloud download makes at most 3 attempts and
\* geocoding at most 3; image export sends at most 4 requests and no size
\* twice.  A loop still running has attempts left, and after the last
\* failed attempt the download and the export have raised and the
\* geocoding job is FAILED with the runner returned.
RetryCeilings ==
    /\ Attempts(fLog) <= 3
    /\ fSt = "loop" => Attempts(fLog) < 3
    /\ Attempts(fLog) = 3 /\ fSt # "returned" => fSt = "raised"
    /\ Attempts(gLog) <= 3
    /\ gSt = "loop" => Attempts(gLog) < 3 /\ jobStatus = "processing"
    /\ Attempts(gLog) = 3 /\ gSt # "geocoded"
           => gSt = "returned" /\ jobStatus = "failed"
    /\ Len(xLog) <= 4
    /\ \A i, j \in 1..Len(xLog) : i # j => xLog[i].size # xLog[j].size
    /\ xSt = "loop" => Len(xLog) < Len(UniqueSizes(xReq))
    /\ Len(xLog) > 0 /\ Len(xLog) = Len(UniqueSizes(xReq))
          /\ xLog[Len(xLog)].got # "ok"
           => xSt = "raised"

\* No loop is running.
RetryDone == fSt # "loop" /\ gSt # "loop" /\ xSt # "loop"

\* C7: every retry loop has a hard ceiling and terminates.  The ceilings
\* hold in every state, and every loop that is entered ends for good, in a
\* return, a raise or a FAILED job.
C7_RetryLoopsBoundedAndTerminate == []RetryCeilings /\ <>[]RetryDone

\* The download loop has used its three attempts, with a backoff wait on
\* the way, and has raised.
C7_Witness ==
    /\ fSt = "raised" /\ Attempts(fLog) = 3
    /\ \E k \in 1..Len(fLog) : fLog[k].ev = "sleep"

\* C8: in the point-cloud download loop every attempt after the first comes
\* right after a backoff wait, and the waits are 5 s, 10 s, ... in order,
\* whatever the way the previous attempt failed.
C8_BackoffBeforeEveryRetry ==
    /\ \A k \in 2..Len(fLog) :
           fLog[k].ev = "attempt" => fLog[k - 1].ev = "sleep"
    /\ \A k \in 1..Len(fLog) :
           fLog[k].ev = "sleep"
              => fLog[k].n = 5 * Pow2(SleepsBefore(fLog, k))

\* A size strictly smaller than another: no dimension larger, not the same.
Smaller(a, b) == a[1] <= b[1] /\ a[2] <= b[2] /\ a # b

\* C9: after a size-limit or too-small-image answer the next request asks
\* for a strictly smaller size than the one that failed; the sizes are
\* requested in the order requested size, 2048, 1024, 512, none twice.
C9_NextSizeSmaller ==
    /\ \A k \in 1..(Len(xLog) - 1) :
           xLog[k].got \in {"sizelimit", "smallimage"}
              => Smaller(xLog[k + 1].size, xLog[k].size)
    /\ \A i, j \in 1..Len(xLog) : i # j => xLog[i].size # xLog[j].size
    /\ \A i, j \in 1..Len(xLog) :
           i < j /\ xLog[i].size # xReq
              => /\ xLog[j].size # xReq
                 /\ xLog[j].size[1] < xLog[i].size[1]

(***************************************************************************)
(* Claims about the pixel mapper and sampler (checked under SpecPixel).    *)
(***************************************************************************)
\* C10: a point is marked valid exactly when its stored pixel indices
\* satisfy 0 <= col < width and 0 <= row < height; every (row, col) read
\* from the raster bands is inside the raster; the colors of the points
\* not marked valid are (0, 0, 0).
C10_ValidIffInRange ==
    /\ \A i \in 1..Len(pMask) :
           pMask[i] <=> /\ pCols[i].q = 0 /\ pRows[i].q = 0
                        /\ 0 <= pCols[i].r /\ pCols[i].r < pRaster.width
                        /\ 0 <= pRows[i].r /\ pRows[i].r < pRaster.height
    /\ \A rc \in pReads :
           /\ 0 <= rc[1] /\ rc[1] < pRaster.height
           /\ 0 <= rc[2] /\ rc[2] < pRaster.width
    /\ \A i \in 1..Len(pColors) : ~pMask[i] => pColors[i] = <<0, 0, 0>>

\* The sampler has run on a cloud with a valid and an invalid point and
\* has read a non-zero color for the valid one.
C10_Witness ==
    /\ pSt = "sampled" /\ pReads # {}
    /\ \E i, j \in 1..Len(pMask) :
           pMask[i] /\ ~pMask[j] /\ pColors[i] # <<0, 0, 0>>

\* Valid points of the sampled cloud.
ValidPts == {i \in 1..Len(pMask) : pMask[i]}

\* The sample under point i in the band read for channel k.
SampleAt(i, k) ==
    PixelValue(pRaster, BandOf(pRaster.count, k),
               PixelRow(pRaster, pPts[i].y), PixelCol(pRaster, pPts[i].x))

\* The point lies within the raster bounds, edges included.
InsideBounds(r, p) ==
    /\ p.farx = 0 /\ p.fary = 0
    /\ r.left <= p.x /\ p.x <= BoundsRight(r)
    /\ r.bottom <= p.y /\ p.y <= BoundsTop(r)

\* C11: when every point lies within the raster bounds, edges included,
\* every point is marked valid, and after sampling every point over a
\* pixel with a non-zero sample has a color other than (0, 0, 0).
C11_InsideBoundsValidAndColored ==
    (/\ pSt \in {"mapped", "sampled"}
     /\ \A i \in 1..Len(pPts) : InsideBounds(pRaster, pPts[i]))
       => /\ \A i \in 1..Len(pPts) : pMask[i]
          /\ pSt = "sampled"
                => \A i \in 1..Len(pPts) :
                      (\E k \in 1..3 : SampleAt(i, k) # 0)
                         => pColors[i] # <<0, 0, 0>>

\* C12: band rule.  With 3 or more bands channel k is the stored form of
\* the sample of band k, with 1 band all three channels are the stored form
\* of band 1; with another band count the sampler of a cloud with a valid
\* point ends in an error and hands back no colors.
C12_BandRule ==
    (pSt \in {"sampled", "raised"} /\ ValidPts # {}
        /\ Len(pCols) = Len(pPts))
       => IF pRaster.count >= 3 \/ pRaster.count = 1
          THEN pSt = "sampled"
                  => \E cast \in CastModes : \A i \in ValidPts :
                        \A k \in 1..3 :
                           pColors[i][k] =
                              Channel(pVariant, pRaster.dtype,
                                      PixelValue(pRaster,
                                          IF pRaster.count = 1 THEN 1 ELSE k,
                                          pRows[i].r, pCols[i].r),
                                      cast)
          ELSE pSt = "raised" /\ pColors = <<>>

\* C13: on an 8-bit raster with a supported band count the sampler stores
\* exactly v * 257 for every sample v of a valid point (0 for 0, 65535
\* for 255).
C13_EightBitTimes257 ==
    (/\ pSt \in {"sampled", "raised"} /\ ValidPts # {}
     /\ pRaster.dtype = "uint8" /\ BandsSupported(pRaster.count))
       => /\ pSt = "sampled"
          /\ \A i \in ValidPts : \A k \in 1..3 :
                pColors[i][k] = SampleAt(i, k) * 257

\* The scaled float sample s / 4, clamped to 0..65535 and cut to an integer.
ClampedScaled(s) ==
    IF s < 0 THEN 0 ELSE IF s > 4 THEN 65535 ELSE (s * 65535) \div 4

\* C14: on a float raster every stored channel of a valid point is the
\* sample times 65535 clamped to 0..65535, never the value modulo 2^16,
\* and the sampler does not fail.
C14_FloatScaledAndClamped ==
    (/\ pSt \in {"sampled", "raised"} /\ ValidPts # {}
     /\ pRaster.dtype = "float32" /\ BandsSupported(pRaster.count))
       => /\ pSt = "sampled"
          /\ \A i \in ValidPts : \A k \in 1..3 :
                pColors[i][k] = ClampedScaled(SampleAt(i, k))

(***************************************************************************)
(* Claims about the saved point cloud (checked under SpecSave).            *)
(***************************************************************************)
\* The input index of the k-th valid point.
KthValid(mask, k) ==
    CHOOSE j \in 1..Len(mask) :
       mask[j] /\ Cardinality({i \in 1..j : mask[i]}) = k

\* C15: the saved cloud holds exactly the valid points in their original
\* order: as many points as the mask marks, and the k-th of them has the
\* coordinates, the copied attribute and the color of the k-th valid input
\* point.
C15_SavedIsValidPointsInOrder ==
    sSt = "saved"
       => /\ Len(sOut.points) = NumMasked(sMask)
          /\ \A k \in 1..Len(sOut.points) :
                LET j == KthValid(sMask, k)
                IN  /\ sOut.points[k].xyz = sIn.points[j].xyz
                    /\ sOut.points[k].intensity = sIn.points[j].intensity
                    /\ sOut.points[k].rgb = sColors[j]

\* C16: every non-color attribute of the input (the listed ones, GPS time,
\* extra dimensions) is on each retained point of the archive's output
\* with the value it had, also when the point format is upgraded.
C16_AllAttributesKept ==
    sSt = "saved" /\ sVariant = "archive"
       => \A k \in 1..Len(sOut.points) :
             LET j == KthValid(sMask, k)
             IN  /\ sOut.points[k].intensity = sIn.points[j].intensity
                 /\ sOut.points[k].gps_time = sIn.points[j].gps_time
                 /\ sOut.points[k].extra = sIn.points[j].extra

\* C17: the point format of the archive's output supports colors (2, 3, 5,
\* 7, 8 or 10); an input format of that set is kept, any other one is
\* replaced.
C17_OutputFormatHasColor ==
    sSt = "saved" /\ sVariant = "archive"
       => /\ sOut.header.format \in {2, 3, 5, 7, 8, 10}
          /\ sIn.header.format \in {2, 3, 5, 7, 8, 10}
                => sOut.header.format = sIn.header.format
          /\ sIn.header.format \notin {2, 3, 5, 7, 8, 10}
                => sOut.header.format # sIn.header.format
          /\ \A k \in 1..Len(sOut.points) : sOut.points[k].rgb # NoDim

\* A LAS 1.4 file in point format 6 has been saved in format 2 with the
\* colors of its valid points.
C17_Witness ==
    /\ sSt = "saved" /\ sVariant = "archive"
    /\ sIn.header.format = 6 /\ sOut.header.format = 2
    /\ \E k \in 1..Len(sOut.points) : sOut.points[k].rgb # <<0, 0, 0>>

\* C18: the archive's output header has the scale and offset of the input
\* header, and the record that carries the CRS, a VLR or an extended VLR,
\* is in the output header.
C18_HeaderScaleOffsetCrsKept ==
    sSt = "saved" /\ sVariant = "archive"
       => /\ sOut.header.scale = sIn.header.scale
          /\ sOut.header.offset = sIn.header.offset
          /\ "LASF_Projection" \in sIn.header.vlrs
                => "LASF_Projection" \in sOut.header.vlrs
          /\ "LASF_Projection" \in sIn.header.evlrs
                => "LASF_Projection" \in sOut.header.evlrs

(***************************************************************************)
(* Claims about the coordinate transform (checked under SpecTransform).    *)
(***************************************************************************)
\* C19: the batches of the archive's transform are [i, min(i + B, N)) for
\* i = 0, B, 2B, ... in that order; when the function returns they cover
\* every index 0..N-1 exactly once, the output has length N and its k-th
\* element is the transform of the k-th input.
C19_BatchesCoverEachIndexOnce ==
    tVariant = "archive"
       => /\ \A j \in 1..Len(tWrites) :
                /\ tWrites[j][1] = (j - 1) * tB
                /\ tWrites[j][1] < Len(tIn)
                /\ tWrites[j][2] = IF j * tB < Len(tIn) THEN j * tB
                                   ELSE Len(tIn)
          /\ tSt = "returned"
                => /\ \A k \in 0..(Len(tIn) - 1) :
                         Cardinality({j \in 1..Len(tWrites) :
                            tWrites[j][1] <= k /\ k < tWrites[j][2]}) = 1
                   /\ tRet.kind = "ok"
                   /\ Len(tRet.pts) = Len(tIn)
                   /\ \A k \in 1..Len(tIn) :
                         tRet.pts[k] = Transform(tIn[k])

\* Three points went through a full batch of two and a last batch of one.
C19_Witness ==
    /\ tVariant = "archive" /\ tSt = "returned"
    /\ Len(tIn) = 3 /\ tB = 2
    /\ tWrites = <<<<0, 2>>, <<2, 3>>>>
    /\ tRet.pts[3] = Transform(tIn[3])

\* C20: when the transform of a batch has failed, the operation has failed
\* with an error that wraps the cause, and the caller has no transformed
\* coordinates: neither those of earlier batches nor a fallback result.
C20_BatchFailureFailsWhole ==
    tCause = "ProjError"
       => /\ tSt = "raised"
          /\ tRet.kind = "RuntimeError"
          /\ tRet.wraps = "ProjError"
          /\ Len(tRet.pts) = 0

(***************************************************************************)
(* The 32-bit storage of the pixel indices (checked under SpecPixel).      *)
(***************************************************************************)
\* C30: a point marked valid has its true pixel column in 0..width-1 and
\* its true pixel row in 0..height-1; an index outside the signed 32-bit
\* range is not wrapped into the raster.
C30_FarPointNeverValid ==
    \A i \in 1..Len(pMask) :
       pMask[i]
          => /\ TrueCol(pRaster, pPts[i]).q = 0
             /\ TrueRow(pRaster, pPts[i]).q = 0
             /\ ValidPixel(TrueCol(pRaster, pPts[i]).r,
                           TrueRow(pRaster, pPts[i]).r,
                           pRaster.width, pRaster.height)

(***************************************************************************)
(* Claims about the CRS of the point cloud (checked under SpecCrs).        *)
(***************************************************************************)
\* Some rule of the fallback matches the coordinate ranges.
SomeRuleMatches ==
    WebMercatorRule(cRange) \/ GeographicRule(cRange) \/ UtmRule(cRange)

\* C21: without an override, a header with an embedded CRS gives that CRS
\* and the heuristics are consulted only when there is none; with no
\* embedded CRS and no matching rule the resolution fails and no transform
\* is attempted: no CRS is assumed.
C21_EmbeddedElseHeuristicElseFail ==
    cOverride = "none" /\ cSt # "start"
       => /\ cEmbedded # "none"
                => cSt # "raised" /\ cCrs.crs = cEmbedded
          /\ cCrs.by = "heuristic" => cEmbedded = "none"
          /\ cEmbedded = "none" /\ ~SomeRuleMatches
                => cSt = "raised" /\ cCrs.crs = "none"

\* C22: a source CRS supplied by the caller, as argument or on the command
\* line, is the CRS the transform uses, and the run does not fail for an
\* undetermined CRS.
C22_OverrideIsUsed ==
    cOverride # "none" /\ cSt # "start"
       => cSt # "raised" /\ cCrs.crs = cOverride

\* C23: the heuristics answer long/lat only for a cloud whose whole range
\* is geographic: minimum and maximum of x within -180..180, of y within
\* -90..90.
C23_LongLatOnlyForGeographicRange ==
    cCrs = [crs |-> "EPSG:4326", by |-> "heuristic"]
       => /\ -180 <= cRange.xmin /\ cRange.xmax <= 180
          /\ -90 <= cRange.ymin /\ cRange.ymax <= 90

\* The coordinates lie in the range of a regional projected grid.
RegionalRange ==
    /\ 100000 < cRange.xmin /\ cRange.xmax < 900000
    /\ 1000000 < cRange.ymin /\ cRange.ymax < 10000000

OutsideTenPercent(declared, extent, n) ==
    10 * declared * n > 11 * extent \/ 10 * declared * n < 9 * extent

\* C25: the pixel indices come from the transform derived from bounds and
\* dimensions exactly when the declared pixel width or the declared pixel
\* height is more than 10% of the expected size away from the expected
\* size; otherwise from the declared transform.
C25_DerivedIffSizeMismatch ==
    zSt = "mapped"
       => /\ zUsed \in {"derived", "declared"}
          /\ zUsed = "derived"
                <=> \/ OutsideTenPercent(zRaster.a, ExtentX(zRaster),
                                         zRaster.width)
                    \/ OutsideTenPercent(
                          IF zRaster.e < 0 THEN -zRaster.e ELSE zRaster.e,
                          ExtentY(zRaster), zRaster.height)

\* A rotated raster whose pixel width is within 10% of the expected one
\* and whose pixel height is not has been mapped with the derived
\* transform.
C25_Witness ==
    /\ zSt = "mapped" /\ zUsed = "derived"
    /\ zIssues = <<"Y pixel size mismatch">>
    /\ zRaster.a > 0 /\ zRaster.e < 0

(***************************************************************************)
(* Claims about the job of the API (checked under SpecJob).                *)
(***************************************************************************)
\* C26: a request that got the job from get_job_safe never reads a partly
\* applied update: it never reads status COMPLETED and then finds
\* output_file unset.
C26_NoTornRead ==
    rPc = "answered" /\ rSeen.status = "completed" => rSeen.output

\* C27: every change of the job's status is PENDING -> PROCESSING,
\* PROCESSING -> COMPLETED or PROCESSING -> FAILED: nothing is set before
\* PROCESSING and nothing after COMPLETED or FAILED.
C27_StatusOrder ==
    [][jStatus' # jStatus
          => \/ jStatus = "pending" /\ jStatus' = "processing"
             \/ jStatus = "processing"
                   /\ jStatus' \in {"completed", "failed"}]_vars

\* The task has gone through PROCESSING to COMPLETED and has left.
C27_Witness ==
    jStatus = "completed" /\ jOutput /\ bPc = "exited"

\* C28: when the background task has been left, by return or by an
\* exception, the job is COMPLETED or FAILED, never PENDING or PROCESSING.
C28_LeavesOnlyFinished ==
    bPc \in {"exited", "died"} => jStatus \in {"completed", "failed"}

\* C29 as stated: on every way out of the background task the temporary
\* directory, if one was created, is gone, and the log file handler, if one
\* was added, has been removed and closed.
C29_TempDirGoneHandlerClosed ==
    bPc \in {"exited", "died"}
       => bTemp \in {"none", "removed"} /\ bHandler \in {"none", "closed"}

\* C29 as amended: on every way out of the background task the temporary
\* directory, if one was created, has been given to cleanup_temp_dir, which
\* removes it unless the removal itself raises, and the log file handler,
\* if one was added, has been removed and closed.
C29_CleanupRunHandlerClosed ==
    bPc \in {"exited", "died"}
       => bTemp \in {"none", "removed", "left"}
          /\ bHandler \in {"none", "closed"}

\* The task has left after a failure of the processing step, with the
\* temporary directory removed and the handler closed.
C29_Witness ==
    /\ bPc = "exited" /\ jStatus = "failed"
    /\ bTemp = "removed" /\ bHandler = "closed"
====
